---- MODULE Spec2Model ----
(***************************************************************************)
(* Model of surfsense_backend/app/routes/documents_routes.py: the document *)
(* CRUD endpoints, the two submission endpoints and the background         *)
(* ingestion entry points.                                                 *)
(*                                                                         *)
(* Every HTTP handler is one action.  A handler's try-body is an operator  *)
(* that returns an outcome record (exc = "none" | "http" | "other"); the   *)
(* handler's except-clauses are a second operator applied to that outcome. *)
(* A Document row keeps search_space_id, document_type, title and content; *)
(* document_metadata and created_at are copied the same way as title and   *)
(* content by every handler and are left out.  The ingestion routines      *)
(* (add_extension_received_document, add_crawled_url_document,             *)
(* add_received_file_document), the document loader and os.unlink are      *)
(* outside this file: a background task's run takes as input whether each  *)
(* of them returns or raises.  In the same way a request takes as input    *)
(* which call of its database session raises, if any: session.execute in   *)
(* the two GET handlers, session.commit or session.refresh in the others.  *)
(***************************************************************************)
EXTENDS Integers, Sequences, FiniteSets, TLC

VARIABLES
    documents,   \* the Document table: id -> row
    tempFiles,   \* paths of the temp files that exist on disk
    tasks,       \* background tasks of the answered submission, not yet run
    resp,        \* the last HTTP exchange: request inputs and response
    pre,         \* the Document table as it was when that request arrived
    runs         \* what the tasks of the last submission that have run did, in order

vars == <<documents, tempFiles, tasks, resp, pre, runs>>

-----------------------------------------------------------------------------
(* Bounds *)

MaxDocs  == 2    \* rows of the Document table the CRUD endpoints start from
MaxSkip  == 1    \* largest ?skip= tried
MaxLimit == 1    \* largest explicit ?limit= tried
MaxItems == 2    \* items in one POST /documents/ body
MaxFiles == 2    \* files in one upload
MaxTemp  == 2    \* temp files on disk
PageDocs == 5    \* rows of the pagination scenario

-----------------------------------------------------------------------------
(* The tenants.  SearchSpace rows are not created in this file. *)

Users == {"u1", "u2"}

SpaceOwner == [s \in {1, 2} |-> IF s = 1 THEN "u1" ELSE "u2"]

\* search_space_id values a request may carry; 3 names no SearchSpace.
SpaceIds == {1, 2, 3}

\* Titles, contents and content items.
Values == {"a", "b"}

\* limit: int = 300
DefaultLimit == 300

NoFault == "none"

-----------------------------------------------------------------------------
(* Outcomes of a handler's try-body *)

Return(status, body, docs) ==
    [exc |-> "none", status |-> status, body |-> body, docs |-> docs]

\* raise HTTPException(status_code = status)
RaiseHTTP(status, docs) ==
    [exc |-> "http", status |-> status, body |-> << >>, docs |-> docs]

\* any other exception: a failing session.execute / commit / refresh
RaiseOther(docs) ==
    [exc |-> "other", status |-> 0, body |-> << >>, docs |-> docs]

\* Mutant: the handler without its "except HTTPException: raise" clause.
ExceptWithoutReraise(out) ==
    IF out.exc # "none" THEN RaiseHTTP(500, out.docs) ELSE out

\* except HTTPException: raise / except Exception: rollback, raise 500
ReraiseHTTP(out) ==
    IF out.exc = "http" THEN out
    ELSE IF out.exc = "other" THEN RaiseHTTP(500, out.docs)
    ELSE out

\* except Exception alone: HTTPException is an Exception, so it is caught too
BroadExcept(out) ==
    IF out.exc # "none" THEN RaiseHTTP(500, out.docs)
    ELSE out

-----------------------------------------------------------------------------
(* The Document table and the queries *)

Row(ss, type, title, content) ==
    [search_space_id |-> ss, document_type |-> type, title |-> title, content |-> content]

DocumentRead(id, doc) ==
    [id |-> id, title |-> doc.title, document_type |-> doc.document_type,
     content |-> doc.content, search_space_id |-> doc.search_space_id]

\* Mutant: the query without its filter on SearchSpace.user_id.
UserDocumentsUnfiltered(docs, u) ==
    DOMAIN docs

\* select(Document).join(SearchSpace).filter(SearchSpace.user_id == user.id)
UserDocuments(docs, u) ==
    {d \in DOMAIN docs : SpaceOwner[docs[d].search_space_id] = u}

\* ... .filter(Document.id == document_id, SearchSpace.user_id == user.id)
DocumentById(docs, id, u) ==
    {d \in UserDocuments(docs, u) : d = id}

\* The orders in which a SELECT without ORDER BY may return the rows S.
Orders(S) ==
    {o \in [1..Cardinality(S) -> S] : \A i, j \in 1..Cardinality(S) : o[i] = o[j] => i = j}

Min(a, b) == IF a < b THEN a ELSE b

\* .offset(skip).limit(limit) applied to the rows in the order the query returns them
OffsetLimit(order, skip, limit) ==
    SubSeq(order, skip + 1, Min(skip + limit, Len(order)))

-----------------------------------------------------------------------------
(* GET /documents/ *)

\* fault: "execute" when session.execute raises
read_documents_try(docs, u, skip, limit, order, fault) ==
    IF fault = "execute" THEN RaiseOther(docs)
    ELSE LET db_documents == OffsetLimit(order, skip, limit)
         IN  Return(200, [i \in 1..Len(db_documents) |->
                            DocumentRead(db_documents[i], docs[db_documents[i]])], docs)

Exchange(op, u, id, skip, limit, data, fault, out) ==
    [op |-> op, user |-> u, id |-> id, skip |-> skip, limit |-> limit, data |-> data,
     fault |-> fault, status |-> out.status, body |-> out.body]

Others == <<tempFiles, tasks, runs>>

read_documents(u, skip, limit, order, fault) ==
    LET out == BroadExcept(read_documents_try(documents, u, skip, limit, order, fault))
    IN  /\ resp' = Exchange("list", u, 0, skip, limit, << >>, fault, out)
        /\ pre' = documents
        /\ documents' = out.docs
        /\ UNCHANGED Others

-----------------------------------------------------------------------------
(* GET /documents/{document_id} *)

read_document_try(docs, u, id, fault) ==
    IF fault = "execute" THEN RaiseOther(docs)
    ELSE LET document == DocumentById(docs, id, u)
         IN  IF document = {} THEN RaiseHTTP(404, docs)
             ELSE Return(200, <<DocumentRead(id, docs[id])>>, docs)

read_document(u, id, fault) ==
    LET out == BroadExcept(read_document_try(documents, u, id, fault))
    IN  /\ resp' = Exchange("detail", u, id, 0, 0, << >>, fault, out)
        /\ pre' = documents
        /\ documents' = out.docs
        /\ UNCHANGED Others

-----------------------------------------------------------------------------
(* PUT /documents/{document_id} *)

\* The fields DocumentUpdate carries.
UpdateFields == {"title", "content"}

\* document_update.model_dump(exclude_unset=True): the fields the body sets
UpdateData == UNION {[F -> Values] : F \in SUBSET UpdateFields}

\* Mutant: model_dump() without exclude_unset, so that the fields the body left
\* out are written too, with their default.
SetAttrsWithUnset(doc, update_data) ==
    [k \in DOMAIN doc |-> IF k \in DOMAIN update_data THEN update_data[k]
                          ELSE IF k \in UpdateFields THEN "default"
                          ELSE doc[k]]

\* for key, value in update_data.items(): setattr(db_document, key, value)
SetAttrs(doc, update_data) ==
    [k \in DOMAIN doc |-> IF k \in DOMAIN update_data THEN update_data[k] ELSE doc[k]]

\* fault: "commit" or "refresh" when that call of the session raises
update_document_try(docs, u, id, update_data, fault) ==
    LET db_document == DocumentById(docs, id, u)
    IN  IF db_document = {} THEN RaiseHTTP(404, docs)
        ELSE IF fault = "commit" THEN RaiseOther(docs)
        ELSE LET stored == [docs EXCEPT ![id] = SetAttrs(docs[id], update_data)]
             IN  IF fault = "refresh" THEN RaiseOther(stored)
                 ELSE Return(200, <<DocumentRead(id, stored[id])>>, stored)

update_document(u, id, update_data, fault) ==
    LET out == ReraiseHTTP(update_document_try(documents, u, id, update_data, fault))
    IN  /\ resp' = Exchange("update", u, id, 0, 0, update_data, fault, out)
        /\ pre' = documents
        /\ documents' = out.docs
        /\ UNCHANGED Others

-----------------------------------------------------------------------------
(* DELETE /documents/{document_id} *)

\* fault: "commit" when session.delete or session.commit raises
delete_document_try(docs, u, id, fault) ==
    LET document == DocumentById(docs, id, u)
    IN  IF document = {} THEN RaiseHTTP(404, docs)
        ELSE IF fault = "commit" THEN RaiseOther(docs)
        ELSE Return(200, << >>, [d \in DOMAIN docs \ {id} |-> docs[d]])

delete_document(u, id, fault) ==
    LET out == ReraiseHTTP(delete_document_try(documents, u, id, fault))
    IN  /\ resp' = Exchange("delete", u, id, 0, 0, << >>, fault, out)
        /\ pre' = documents
        /\ documents' = out.docs
        /\ UNCHANGED Others

-----------------------------------------------------------------------------
(* The CRUD endpoints over a table of existing documents *)

NoExchange ==
    [op |-> "none", user |-> "u1", id |-> 0, skip |-> 0, limit |-> 0, data |-> << >>,
     fault |-> NoFault, status |-> 0, body |-> << >>]

\* The table the CRUD endpoints start from: MaxDocs ingested documents, the
\* odd ids in u1's search space and the even ids in u2's.
InitialTable ==
    [d \in 1..MaxDocs |-> Row(IF d % 2 = 1 THEN 1 ELSE 2, "FILE", "a", "a")]

DocIds == 1..(MaxDocs + 1)

Limits == (0..MaxLimit) \cup {DefaultLimit}

InitCrud ==
    /\ documents = InitialTable
    /\ tempFiles = {}
    /\ tasks = << >>
    /\ resp = NoExchange
    /\ pre = documents
    /\ runs = << >>

NextCrud ==
    \/ \E u \in Users, skip \in 0..MaxSkip, limit \in Limits, fault \in {NoFault, "execute"} :
         \E order \in Orders(UserDocuments(documents, u)) :
            read_documents(u, skip, limit, order, fault)
    \/ \E u \in Users, id \in DocIds, fault \in {NoFault, "execute"} :
         read_document(u, id, fault)
    \/ \E u \in Users, id \in DocIds, data \in UpdateData,
          fault \in {NoFault, "commit", "refresh"} :
         update_document(u, id, data, fault)
    \/ \E u \in Users, id \in DocIds, fault \in {NoFault, "commit"} :
         delete_document(u, id, fault)

SpecCrud == InitCrud /\ [][NextCrud]_vars

-----------------------------------------------------------------------------
(* POST /documents/ and POST /documents/fileupload *)

\* The status check_ownership raises when the user does not own the row.
OwnershipErrorStatus == 403

\* check_ownership(session, SearchSpace, search_space_id, user)
check_ownership(ss, u) ==
    IF ss \in DOMAIN SpaceOwner /\ SpaceOwner[ss] = u THEN "ok" ELSE "denied"

DocumentTypes == {"EXTENSION", "CRAWLED_URL", "YOUTUBE_VIDEO", "FILE"}

\* One fastapi_background_tasks.add_task(func, item, search_space_id) call;
\* for a file the task carries temp_path too.
Task(func, item, ss, path) ==
    [func |-> func, item |-> item, search_space_id |-> ss, path |-> path]

\* Mutant: one task for the whole request, carrying its first item.
TaskForFirstItem(func, content, ss) ==
    IF content = << >> THEN << >> ELSE <<Task(func, content[1], ss, 0)>>

\* for individual_document in request.content: add_task(func, individual_document, ...)
TaskPerItem(func, content, ss) ==
    [i \in 1..Len(content) |-> Task(func, content[i], ss, 0)]

Submitted(exc, status, sched, temp) ==
    [exc |-> exc, status |-> status, sched |-> sched, temp |-> temp]

\* Mutant: the document type is validated after the tasks were added, every type
\* other than the first two taking the last branch.
create_documents_validating_late(u, ss, type, content, fault) ==
    IF check_ownership(ss, u) # "ok" THEN Submitted("http", OwnershipErrorStatus, << >>, {})
    ELSE LET sched ==
               IF type = "EXTENSION" THEN TaskPerItem("extension", content, ss)
               ELSE IF type = "CRAWLED_URL" THEN TaskPerItem("crawled_url", content, ss)
               ELSE TaskPerItem("youtube_video", content, ss)
         IN  IF type \notin {"EXTENSION", "CRAWLED_URL", "YOUTUBE_VIDEO"}
                THEN Submitted("http", 400, sched, {})
             ELSE IF fault = "commit" THEN Submitted("other", 0, sched, {})
             ELSE Submitted("none", 200, sched, {})

\* fault: "commit" when session.commit raises
create_documents_try(u, ss, type, content, fault) ==
    IF check_ownership(ss, u) # "ok" THEN Submitted("http", OwnershipErrorStatus, << >>, {})
    ELSE LET sched ==
               IF type = "EXTENSION" THEN TaskPerItem("extension", content, ss)
               ELSE IF type = "CRAWLED_URL" THEN TaskPerItem("crawled_url", content, ss)
               ELSE IF type = "YOUTUBE_VIDEO" THEN TaskPerItem("youtube_video", content, ss)
               ELSE << >>
         IN  IF type \notin {"EXTENSION", "CRAWLED_URL", "YOUTUBE_VIDEO"}
                THEN Submitted("http", 400, sched, {})
             ELSE IF fault = "commit" THEN Submitted("other", 0, sched, {})
             ELSE Submitted("none", 200, sched, {})

\* except HTTPException: raise / except Exception: rollback, raise 500
SubmitExcept(out) ==
    IF out.exc = "other" THEN Submitted("http", 500, out.sched, out.temp) ELSE out

\* The injected BackgroundTasks run once the handler has returned its response;
\* when the handler raises, the tasks it added are dropped with the request.
AfterResponse(out) ==
    IF out.exc = "none"
       THEN [i \in 1..Len(out.sched) |-> [task |-> out.sched[i], response |-> out.status]]
       ELSE << >>

create_documents(u, ss, type, content, fault) ==
    LET out == SubmitExcept(create_documents_try(u, ss, type, content, fault))
    IN  /\ tasks = << >>
        /\ resp' = [op |-> "create", user |-> u, search_space_id |-> ss, type |-> type,
                    content |-> content, fault |-> fault,
                    status |-> out.status, sched |-> out.sched, temp |-> out.temp]
        /\ tasks' = AfterResponse(out)
        /\ runs' = << >>
        /\ pre' = documents
        /\ UNCHANGED <<documents, tempFiles>>

\* tempfile.NamedTemporaryFile(delete=False): a name no existing file has
FreshPath(existing) ==
    CHOOSE p \in 1..(Cardinality(existing) + 1) :
        p \notin existing /\ \A q \in 1..(p - 1) : q \in existing

\* Mutant: a file that fails staging is skipped and the loop goes on.
RECURSIVE StageFilesSkipping(_, _, _, _, _, _)
StageFilesSkipping(files, stage, ss, i, existing, acc) ==
    IF i > Len(files) THEN acc
    ELSE IF stage[i] = "create"
            THEN StageFilesSkipping(files, stage, ss, i + 1, existing, acc)
    ELSE LET temp_path == FreshPath(existing)
         IN  IF stage[i] = "write"
                THEN StageFilesSkipping(files, stage, ss, i + 1, existing \cup {temp_path},
                       Submitted(acc.exc, acc.status, acc.sched, acc.temp \cup {temp_path}))
             ELSE StageFilesSkipping(files, stage, ss, i + 1, existing \cup {temp_path},
                    Submitted("none", 200,
                              Append(acc.sched, Task("file", files[i], ss, temp_path)),
                              acc.temp \cup {temp_path}))

\* The loop over the files, from file i on.  stage[i] says what staging file i
\* does: "ok", "create" (NamedTemporaryFile raises) or "write" (read or write
\* raises, after the temp file was created).
RECURSIVE StageFiles(_, _, _, _, _, _)
StageFiles(files, stage, ss, i, existing, acc) ==
    IF i > Len(files) THEN acc
    ELSE IF stage[i] = "create" THEN Submitted("http", 422, acc.sched, acc.temp)
    ELSE LET temp_path == FreshPath(existing)
         IN  IF stage[i] = "write"
                THEN Submitted("http", 422, acc.sched, acc.temp \cup {temp_path})
             ELSE StageFiles(files, stage, ss, i + 1, existing \cup {temp_path},
                    Submitted("none", 200,
                              Append(acc.sched, Task("file", files[i], ss, temp_path)),
                              acc.temp \cup {temp_path}))

fileupload_try(u, ss, files, stage, fault, existing) ==
    IF check_ownership(ss, u) # "ok" THEN Submitted("http", OwnershipErrorStatus, << >>, {})
    ELSE IF files = << >> THEN Submitted("http", 400, << >>, {})
    ELSE LET staged == StageFiles(files, stage, ss, 1, existing, Submitted("none", 200, << >>, {}))
         IN  IF staged.exc = "none" /\ fault = "commit"
                THEN Submitted("other", 0, staged.sched, staged.temp)
             ELSE staged

create_documents_fileupload(u, ss, files, stage, fault) ==
    LET out == SubmitExcept(fileupload_try(u, ss, files, stage, fault, tempFiles))
    IN  /\ tasks = << >>
        /\ Cardinality(tempFiles) + Len(files) <= MaxTemp
        /\ resp' = [op |-> "upload", user |-> u, search_space_id |-> ss, files |-> files,
                    stage |-> stage, fault |-> fault,
                    status |-> out.status, sched |-> out.sched, temp |-> out.temp]
        /\ tasks' = AfterResponse(out)
        /\ tempFiles' = tempFiles \cup out.temp
        /\ runs' = << >>
        /\ pre' = documents
        /\ UNCHANGED documents

-----------------------------------------------------------------------------
(* The background entry points *)

\* What a background entry point did: the calls it made in order, whether an
\* exception left it, whether it logged an error, whether the ingestion routine
\* returned, whether the temp file was removed.
Ran(steps, escaped, logged, ingested, unlinked) ==
    [steps |-> steps, escaped |-> escaped, logged |-> logged, ingested |-> ingested,
     unlinked |-> unlinked]

\* Mutant: the entry point without its try/except around the routine.
process_extension_document_uncaught(routine) ==
    Ran(<<"add_extension_received_document">>, routine = "raise", FALSE, routine = "ok", FALSE)

\* routine: "ok" or "raise", what add_extension_received_document does
process_extension_document_with_new_session(routine) ==
    Ran(<<"add_extension_received_document">>, FALSE, routine = "raise", routine = "ok", FALSE)

process_crawled_url_with_new_session(routine) ==
    Ran(<<"add_crawled_url_document">>, FALSE, routine = "raise", routine = "ok", FALSE)

process_youtube_video_with_new_session ==
    Ran(<<"print">>, FALSE, FALSE, FALSE, FALSE)

\* load, unlink, routine: "ok" or "raise", what loader.load(), os.unlink and
\* add_received_file_document do
process_file_in_background(load, unlink, routine) ==
    IF load = "raise" THEN Ran(<<"load">>, FALSE, TRUE, FALSE, FALSE)
    ELSE Ran(<<"load", "unlink", "add_received_file_document">>,
             FALSE, routine = "raise", routine = "ok", unlink = "ok")

process_file_in_background_with_new_session(load, unlink, routine) ==
    process_file_in_background(load, unlink, routine)

\* The task at the head of the queue runs: a request's tasks run one after
\* another in the order they were added.
RunTask(ran) ==
    /\ tasks # << >>
    /\ runs' = Append(runs, [task |-> Head(tasks).task, response |-> Head(tasks).response,
                             ran |-> ran])
    /\ tasks' = Tail(tasks)
    /\ tempFiles' = IF ran.unlinked THEN tempFiles \ {Head(tasks).task.path} ELSE tempFiles
    /\ UNCHANGED <<documents, resp, pre>>

Outcomes == {"ok", "raise"}

RunExtension(routine) ==
    /\ tasks # << >> /\ Head(tasks).task.func = "extension"
    /\ RunTask(process_extension_document_with_new_session(routine))

RunCrawledUrl(routine) ==
    /\ tasks # << >> /\ Head(tasks).task.func = "crawled_url"
    /\ RunTask(process_crawled_url_with_new_session(routine))

RunYoutubeVideo ==
    /\ tasks # << >> /\ Head(tasks).task.func = "youtube_video"
    /\ RunTask(process_youtube_video_with_new_session)

RunFile(load, unlink, routine) ==
    /\ tasks # << >> /\ Head(tasks).task.func = "file"
    /\ RunTask(process_file_in_background_with_new_session(load, unlink, routine))

-----------------------------------------------------------------------------
(* Submission and background ingestion.  A submission is taken when the      *)
(* tasks of the one before it have run.                                      *)

Contents == UNION {[1..n -> Values] : n \in 0..MaxItems}

\* An upload of n files; the i-th is named i.
Uploads == {[i \in 1..n |-> i] : n \in 0..MaxFiles}

Stages(files) == [1..Len(files) -> {"ok", "create", "write"}]

Faults == {NoFault, "commit"}

InitIngest ==
    /\ documents = InitialTable
    /\ tempFiles = {}
    /\ tasks = << >>
    /\ resp = NoExchange
    /\ pre = documents
    /\ runs = << >>

Next ==
    \/ \E u \in Users, ss \in SpaceIds, type \in DocumentTypes, content \in Contents,
          fault \in Faults :
         create_documents(u, ss, type, content, fault)
    \/ \E u \in Users, ss \in SpaceIds, files \in Uploads, fault \in Faults :
         \E stage \in Stages(files) :
            create_documents_fileupload(u, ss, files, stage, fault)
    \/ \E routine \in Outcomes : RunExtension(routine)
    \/ \E routine \in Outcomes : RunCrawledUrl(routine)
    \/ RunYoutubeVideo
    \/ \E load \in Outcomes, unlink \in Outcomes, routine \in Outcomes :
         RunFile(load, unlink, routine)

Spec == InitIngest /\ [][Next]_vars

-----------------------------------------------------------------------------
(* Paging through one user's documents, with no write in between *)

PageTable ==
    [d \in 1..(PageDocs + 1) |-> Row(IF d <= PageDocs THEN 1 ELSE 2, "FILE", "a", "a")]

InitPage ==
    /\ documents = PageTable
    /\ tempFiles = {}
    /\ tasks = << >>
    /\ resp = NoExchange
    /\ pre = documents
    /\ runs = << >>

NextPage ==
    \E u \in Users, skip \in 0..PageDocs, limit \in 1..2, fault \in {NoFault, "execute"} :
       \E order \in Orders(UserDocuments(documents, u)) :
          read_documents(u, skip, limit, order, fault)

SpecPage == InitPage /\ [][NextPage]_vars

-----------------------------------------------------------------------------
(* The claims *)

Owns(u, ss) == ss \in DOMAIN SpaceOwner /\ SpaceOwner[ss] = u

\* No document with this id, or one in a search space of another user.
MissingOrForeign(docs, id, u) ==
    id \notin DOMAIN docs \/ SpaceOwner[docs[id].search_space_id] # u

CrudOps == {"list", "detail", "update", "delete"}

\* C1: tenant isolation.  Whatever list, detail, update and delete requests were
\* made, the documents a request of user u returns are documents of search
\* spaces u owns, and every document of a search space u does not own is
\* stored after the request exactly as it was before it.
C1_TenantIsolation ==
    resp.op \in CrudOps =>
        /\ \A i \in 1..Len(resp.body) :
              /\ resp.body[i].id \in DOMAIN pre
              /\ SpaceOwner[pre[resp.body[i].id].search_space_id] = resp.user
        /\ \A d \in DOMAIN pre :
              SpaceOwner[pre[d].search_space_id] # resp.user
                 => d \in DOMAIN documents /\ documents[d] = pre[d]

\* A user has asked to rewrite or delete an existing document of another user.
C1_Witness ==
    /\ resp.op \in {"update", "delete"}
    /\ resp.id \in DOMAIN pre
    /\ SpaceOwner[pre[resp.id].search_space_id] # resp.user
    /\ resp.fault = NoFault
    /\ \E d \in DOMAIN pre : SpaceOwner[pre[d].search_space_id] = resp.user

\* C2: GET /documents/{id} answers 404 whenever the document does not exist or
\* is in a search space the user does not own (the query itself having run).
C2_DetailNotFoundIs404 ==
    (resp.op = "detail" /\ resp.fault = NoFault /\ MissingOrForeign(pre, resp.id, resp.user))
        => resp.status = 404

\* C3: a request rejected with 400 has no side effects.  The owner's POST
\* /documents/ with an unsupported document_type answers 400 with no task
\* scheduled; the owner's upload of no files answers 400 with no temp file
\* created and no task scheduled.
C3_Rejected400NoSideEffects ==
    /\ (resp.op = "create" /\ Owns(resp.user, resp.search_space_id)
          /\ resp.type \notin {"EXTENSION", "CRAWLED_URL", "YOUTUBE_VIDEO"})
          => resp.status = 400
    /\ (resp.op = "upload" /\ Owns(resp.user, resp.search_space_id) /\ resp.files = << >>)
          => resp.status = 400
    /\ (resp.op \in {"create", "upload"} /\ resp.status = 400)
          => resp.sched = << >> /\ resp.temp = {} /\ tasks = << >> /\ runs = << >>

\* The owner has posted two items with an unsupported type and got 400.
C3_Witness ==
    /\ resp.op = "create"
    /\ Owns(resp.user, resp.search_space_id)
    /\ resp.type = "FILE"
    /\ Len(resp.content) >= 2
    /\ resp.status = 400

\* C4: a successful PUT sets exactly the fields present in the body, to the
\* supplied values; the fields the body leaves out and every other document
\* stay as they were; the document returned is the stored one.
C4_UpdateFrame ==
    (resp.op = "update" /\ resp.status = 200) =>
        /\ DOMAIN documents = DOMAIN pre
        /\ resp.id \in DOMAIN pre
        /\ \A k \in DOMAIN pre[resp.id] :
              documents[resp.id][k] =
                 IF k \in DOMAIN resp.data THEN resp.data[k] ELSE pre[resp.id][k]
        /\ \A d \in DOMAIN pre \ {resp.id} : documents[d] = pre[d]
        /\ resp.body = << [id |-> resp.id,
                           title |-> documents[resp.id].title,
                           document_type |-> documents[resp.id].document_type,
                           content |-> documents[resp.id].content,
                           search_space_id |-> documents[resp.id].search_space_id] >>

\* An update of the title alone has changed the title.
C4_Witness ==
    /\ resp.op = "update"
    /\ resp.status = 200
    /\ DOMAIN resp.data = {"title"}
    /\ documents[resp.id].title # pre[resp.id].title
    /\ documents[resp.id].content = pre[resp.id].content

\* The files of the upload whose staging fails.
FailedFiles == {i \in 1..Len(resp.files) : resp.stage[i] # "ok"}

Scheduled(j) == \E k \in 1..Len(resp.sched) : resp.sched[k].item = resp.files[j]

HasRun(j) == \E k \in 1..Len(runs) : runs[k].task.item = resp.files[j]

Pending(j) == \E k \in 1..Len(tasks) : tasks[k].task.item = resp.files[j]

\* C5, as claimed: when staging fails for one file of an upload, the request
\* answers 422 and every other file of the request is still staged, has its
\* task scheduled, and the task runs.
C5_PerFileIndependence ==
    (resp.op = "upload" /\ Owns(resp.user, resp.search_space_id) /\ FailedFiles # {}) =>
        /\ resp.status = 422
        /\ \A j \in (1..Len(resp.files)) \ FailedFiles :
              Scheduled(j) /\ (Pending(j) \/ HasRun(j))

FirstFailed == CHOOSE i \in FailedFiles : \A j \in FailedFiles : i <= j

\* C5, amended: a staging failure fails the whole request with 422.  The files
\* before the first failing one are staged (one temp file and one task each,
\* the temp files left on disk), the files after it are neither staged nor
\* scheduled, and no task of the request is ever run.
C5_StagingFailureFailsRequest ==
    (resp.op = "upload" /\ Owns(resp.user, resp.search_space_id) /\ FailedFiles # {}) =>
        /\ resp.status = 422
        /\ Len(resp.sched) = FirstFailed - 1
        /\ \A j \in 1..(FirstFailed - 1) :
              /\ resp.sched[j].item = resp.files[j]
              /\ resp.sched[j].path \in resp.temp
              /\ \A k \in 1..(FirstFailed - 1) :
                    resp.sched[k].path = resp.sched[j].path => k = j
        /\ Cardinality(resp.temp) =
              (FirstFailed - 1) + (IF resp.stage[FirstFailed] = "write" THEN 1 ELSE 0)
        /\ resp.temp \subseteq tempFiles
        /\ tasks = << >>
        /\ runs = << >>

\* The second of two files failed staging after the first was staged.
C5_Witness ==
    /\ resp.op = "upload"
    /\ Owns(resp.user, resp.search_space_id)
    /\ Len(resp.files) = 2
    /\ resp.stage[1] = "ok"
    /\ resp.stage[2] # "ok"
    /\ resp.status = 422

\* C6: a background ingestion failure is never surfaced.  No exception leaves
\* an extension, crawled-URL or file task; a task whose routine (or parsing)
\* raised has logged it; tasks wait and run only for a request answered 200,
\* and the answer is still 200 after they ran.
C6_BackgroundFailureNotSurfaced ==
    /\ \A k \in 1..Len(runs) :
          /\ ~runs[k].ran.escaped
          /\ (runs[k].task.func \in {"extension", "crawled_url", "file"}
                /\ ~runs[k].ran.ingested) => runs[k].ran.logged
          /\ runs[k].response = 200
          /\ runs[k].task = resp.sched[k]
    /\ \A k \in 1..Len(tasks) : tasks[k].response = 200
    /\ (tasks # << >> \/ runs # << >>) => resp.status = 200

\* An extension task's routine has raised, after the request was answered 200.
C6_Witness ==
    /\ resp.status = 200
    /\ \E k \in 1..Len(runs) :
          /\ runs[k].task.func = "extension"
          /\ ~runs[k].ran.ingested
          /\ runs[k].ran.logged

\* C7: PUT and DELETE of an id that does not exist, or of a document in a
\* search space the user does not own, answer 404 and leave the stored
\* documents as they were.
C7_MissingIs404AndUnchanged ==
    (resp.op \in {"update", "delete"} /\ MissingOrForeign(pre, resp.id, resp.user)) =>
        resp.status = 404 /\ documents = pre

\* A user has asked to delete an existing document of another user.
C7_Witness ==
    /\ resp.op = "delete"
    /\ resp.id \in DOMAIN pre
    /\ SpaceOwner[pre[resp.id].search_space_id] # resp.user
    /\ resp.status = 404

FuncOf(type) ==
    IF type = "EXTENSION" THEN "extension"
    ELSE IF type = "CRAWLED_URL" THEN "crawled_url"
    ELSE "youtube_video"

\* C8: in POST /documents/ tasks are scheduled only after the ownership check
\* passed.  When it fails no task is scheduled and the check's status is the
\* response's; when it passes, the type is supported and the commit succeeds,
\* the response is 200 and there is exactly one task per item of content, in
\* order, carrying that item and the request's search_space_id.
C8_ScheduledAfterOwnershipCheck ==
    resp.op = "create" =>
        /\ ~Owns(resp.user, resp.search_space_id)
              => /\ resp.status = OwnershipErrorStatus
                 /\ resp.sched = << >>
                 /\ tasks = << >>
        /\ (/\ Owns(resp.user, resp.search_space_id)
            /\ resp.type \in {"EXTENSION", "CRAWLED_URL", "YOUTUBE_VIDEO"}
            /\ resp.fault = NoFault)
              => /\ resp.status = 200
                 /\ Len(resp.sched) = Len(resp.content)
                 /\ \A i \in 1..Len(resp.content) :
                       /\ resp.sched[i].func = FuncOf(resp.type)
                       /\ resp.sched[i].item = resp.content[i]
                       /\ resp.sched[i].search_space_id = resp.search_space_id
                 /\ Len(tasks) + Len(runs) = Len(resp.content)

\* The owner has posted two different items and got 200.
C8_Witness ==
    /\ resp.op = "create"
    /\ resp.status = 200
    /\ Len(resp.content) = 2
    /\ resp.content[1] # resp.content[2]
    /\ Len(resp.sched) = 2

Ids(body) == {body[i].id : i \in 1..Len(body)}

\* C9: pagination.  Of two successive list requests of one user, with no write
\* in between, whose ranges [skip, skip + limit) are disjoint, no document is
\* in both pages; and for a user with PageDocs documents the pages
\* skip=0, limit=2 and skip=2, limit=2 hold exactly 2 documents each.
C9_PagesDisjoint ==
    [][(/\ resp.op = "list" /\ resp'.op = "list"
        /\ resp.status = 200 /\ resp'.status = 200
        /\ resp.user = resp'.user
        /\ documents' = documents)
         => /\ (resp'.limit = 2 /\ resp'.skip \in {0, 2}
                  /\ Cardinality({d \in DOMAIN documents :
                                    SpaceOwner[documents[d].search_space_id] = resp'.user})
                       = PageDocs)
                 => Len(resp'.body) = 2
            /\ (resp.skip + resp.limit <= resp'.skip \/ resp'.skip + resp'.limit <= resp.skip)
                 => Ids(resp.body) \cap Ids(resp'.body) = {}]_vars

\* The file tasks that have run.
FileRuns == {k \in 1..Len(runs) : runs[k].task.func = "file"}

Position(steps, name) == {i \in 1..Len(steps) : steps[i] = name}

\* C10: every file task that runs removes (or tries to remove) its temp file,
\* after loading the content and before calling add_received_file_document; so
\* once the tasks of an upload answered 200 have run, each of its temp files
\* is gone or its removal was tried.
C10_TempFileCleanup ==
    /\ \A k \in FileRuns :
          /\ Position(runs[k].ran.steps, "unlink") # {}
          /\ \A u \in Position(runs[k].ran.steps, "unlink") :
                /\ \E l \in Position(runs[k].ran.steps, "load") : l < u
                /\ \A a \in Position(runs[k].ran.steps, "add_received_file_document") : u < a
    /\ (resp.op = "upload" /\ resp.status = 200 /\ tasks = << >>)
          => \A p \in resp.temp :
                \/ p \notin tempFiles
                \/ \E k \in FileRuns :
                      runs[k].task.path = p /\ Position(runs[k].ran.steps, "unlink") # {}

====
